---- MODULE Spec2Model ----
(***************************************************************************)
(* A model of the two programs of the repository:                          *)
(*   crossword/generate.py  CrosswordCreator: node consistency, AC-3,      *)
(*                          heuristics and backtracking search (Spec)      *)
(*   pagerank/pagerank.py   sample_pagerank (SpecRank)                     *)
(* Words are sequences of letters; Python's 0-based indices are kept and   *)
(* a word is indexed with index + 1.  Python sets iterate in an order the  *)
(* program does not control: each iteration whose order can influence a    *)
(* result is modelled by a permutation chosen with \E.                     *)
(***************************************************************************)
EXTENDS Naturals, Integers, Sequences, FiniteSets, TLC

VARIABLES cw, domains, pc, queue, ac3Result, lastRevise,
          heap, stack, retval, calls,
          corpus, n, page, iter, pageranks, rpc

cwVars == <<cw, domains, pc, queue, ac3Result, lastRevise, heap, stack, retval, calls>>
rankVars == <<corpus, n, page, iter, pageranks, rpc>>
vars == <<cwVars, rankVars>>

\* ------------------------------------------------------------- bounds
\* the largest word list handed to the solver
MaxWords == 4
\* the largest sample count n handed to sample_pagerank
MaxN == 5

\* ------------------------------------------------------------- helpers
Range(s) == {s[k] : k \in 1..Len(s)}

\* all orders in which a set can be iterated
RECURSIVE Perms(_)
Perms(S) == IF S = {} THEN {<<>>} ELSE UNION {{<<e>> \o s : s \in Perms(S \ {e})} : e \in S}

\* the 0-based position of the first occurrence of e in sequence s (list.index)
IndexOf(s, e) == (CHOOSE k \in 1..Len(s) : s[k] = e /\ \A m \in 1..(k-1) : s[m] # e) - 1

\* e placed in the sorted sequence `front` after every element whose key is <= its own
InsertBy(front, e, key) ==
    LET pos == Cardinality({k \in 1..Len(front) : key[front[k]] <= key[e]})
    IN [k \in 1..(Len(front) + 1) |->
          IF k <= pos THEN front[k] ELSE IF k = pos + 1 THEN e ELSE front[k - 1]]

\* sorted(items, key=...): a stable sort of seq by ascending key
RECURSIVE SortedBy(_, _)
SortedBy(seq, key) ==
    IF seq = <<>> THEN <<>>
    ELSE InsertBy(SortedBy(SubSeq(seq, 1, Len(seq) - 1), key), seq[Len(seq)], key)

\* ------------------------------------------------------------- the puzzle
Alphabet == {"a", "b"}
ACROSS == "across"
DOWN == "down"

Var(i, j, direction, length) == [i |-> i, j |-> j, direction |-> direction, length |-> length]

\* the cells a variable covers, in word order
Cells(v) == [k \in 1..v.length |->
                <<v.i + (IF v.direction = DOWN THEN k - 1 ELSE 0),
                  v.j + (IF v.direction = ACROSS THEN k - 1 ELSE 0)>>]

\* the entry of the overlap table for x and y: <<>> stands for None, <<i, j>>
\* for the index pair
Overlap(x, y) ==
    LET common == Range(Cells(x)) \cap Range(Cells(y))
    IN IF common = {} THEN <<>>
       ELSE LET c == CHOOSE c \in common : TRUE
            IN <<IndexOf(Cells(x), c), IndexOf(Cells(y), c)>>

\* the crossword: its variables, its word list and its overlap table
Crossword(V, W) ==
    [variables |-> V, words |-> W,
     overlaps |-> [pair \in {q \in V \X V : q[1] # q[2]} |-> Overlap(pair[1], pair[2])]]

\* self.crossword.overlaps[x, y]
Overlaps(x, y) == cw.overlaps[<<x, y>>]

\* self.crossword.neighbors(var)
Neighbors(var) == {v \in cw.variables : v # var /\ Overlaps(v, var) # <<>>}

\* two slots crossing:   _ _      three slots, H shape:  _ # _     two disjoint slots:  _ _
\*                       # _                             _ _ _                          # #
\*                                                                                      _ _
CrossVars == {Var(0, 0, ACROSS, 2), Var(0, 1, DOWN, 2)}
ChainVars == {Var(1, 0, ACROSS, 3), Var(0, 0, DOWN, 2), Var(0, 2, DOWN, 2)}
ApartVars == {Var(0, 0, ACROSS, 2), Var(2, 0, ACROSS, 2)}
Structures == {CrossVars, ChainVars, ApartVars}

WordUniverse == UNION {[1..len -> Alphabet] : len \in {v.length : v \in UNION Structures}}
WordLists == {W \in SUBSET WordUniverse : Cardinality(W) <= MaxWords}

\* ------------------------------------------------------------- CrosswordCreator
\* __init__: every variable starts with a copy of the whole word list
InitDomains == [v \in cw.variables |-> cw.words]

\* enforce_node_consistency
EnforceNodeConsistency(doms) ==
    [v \in DOMAIN doms |->
        LET words2remove == {word \in doms[v] : Len(word) # v.length}
        IN doms[v] \ words2remove]

\* revise() with its test inverted (`in` for `not in`): the supported words are
\* the ones collected
ReviseRemovalsInverted(doms, x, y) ==
    IF Overlaps(x, y) # <<>>
    THEN {wordX \in doms[x] :
            \E wordY \in doms[y] :
                wordX[Overlaps(x, y)[1] + 1] = wordY[Overlaps(x, y)[2] + 1]}
    ELSE {}

\* the words revise() collects in words2remove
ReviseRemovals(doms, x, y) ==
    IF Overlaps(x, y) # <<>>
    THEN {wordX \in doms[x] :
            LET overlapping_char == wordX[Overlaps(x, y)[1] + 1]
                charY == {wordY[Overlaps(x, y)[2] + 1] : wordY \in doms[y]}
            IN overlapping_char \notin charY}
    ELSE {}

\* revise(x, y): the domains it leaves and the value it returns.  The body
\* sets a local named `revise`, never `revised`, and has no return statement:
\* the call evaluates to None whatever it removed.
Revise(doms, x, y) ==
    LET words2remove == ReviseRemovals(doms, x, y)
    IN [domains |-> [doms EXCEPT ![x] = @ \ words2remove],
        removed |-> words2remove,
        ret |-> "None"]

\* Python truth of a value revise() can return
Truthy(value) == value = "True"

\* ac3(arcs=None): the initial queue, the variables iterated in `order`
InitialArcs(order) ==
    LET pairs == [k \in 1..(Len(order) * Len(order)) |->
                    <<order[((k - 1) \div Len(order)) + 1], order[((k - 1) % Len(order)) + 1]>>]
    IN SelectSeq(pairs, LAMBDA arc : arc[1] # arc[2] /\ Overlaps(arc[1], arc[2]) # <<>>)

\* one iteration of ac3's while loop on a non-empty queue; `order` is the
\* order in which neighbors(x) is iterated
Ac3Iteration(doms, q, order) ==
    LET arc == Head(q)
        x == arc[1]
        y == arc[2]
        r == Revise(doms, x, y)
        pushed == SelectSeq([k \in 1..Len(order) |-> <<order[k], x>>],
                            LAMBDA a : a[1] \in Neighbors(x) /\ a[1] # y)
    IN IF Truthy(r.ret)
       THEN IF r.domains[x] = {}
            THEN [domains |-> r.domains, queue |-> Tail(q), result |-> "False", revise |-> r]
            ELSE [domains |-> r.domains, queue |-> Tail(q) \o pushed, result |-> "None", revise |-> r]
       ELSE [domains |-> r.domains, queue |-> Tail(q), result |-> "None", revise |-> r]

\* ac3()'s while loop run to its return: the domains left and the value returned
RECURSIVE RunAc3(_, _, _)
RunAc3(doms, q, order) ==
    IF q = <<>> THEN [domains |-> doms, result |-> "True"]
    ELSE LET it == Ac3Iteration(doms, q, order)
         IN IF it.result = "False" THEN [domains |-> it.domains, result |-> "False"]
            ELSE RunAc3(it.domains, it.queue, order)

\* assignment_complete() without the comparison of the keys with the variables
AssignmentCompleteValuesOnly(asg) ==
    \A v \in DOMAIN asg : asg[v] # <<>>

\* assignment_complete(assignment)
AssignmentComplete(asg) ==
    DOMAIN asg = cw.variables /\ \A v \in DOMAIN asg : asg[v] # <<>>

\* consistent() without the loop over the neighbors
ConsistentNoOverlap(asg) ==
    /\ Cardinality({asg[v] : v \in DOMAIN asg}) = Cardinality(DOMAIN asg)
    /\ \A v \in DOMAIN asg : Len(asg[v]) = v.length

\* consistent(assignment)
Consistent(asg) ==
    /\ Cardinality({asg[v] : v \in DOMAIN asg}) = Cardinality(DOMAIN asg)
    /\ \A v \in DOMAIN asg :
        /\ Len(asg[v]) = v.length
        /\ \A neighbor \in Neighbors(v) :
              neighbor \in DOMAIN asg =>
                 LET overlap == Overlaps(v, neighbor)
                 IN asg[v][overlap[1] + 1] = asg[neighbor][overlap[2] + 1]

\* num_eliminated of order_domain_values: per word of the domain of var, the
\* pairs (unassigned neighbor, neighbor word) whose overlap letters differ
NumEliminated(doms, var, asg) ==
    [wordV \in doms[var] |->
        Cardinality({pair \in UNION {{<<neighbor, wordN>> : wordN \in doms[neighbor]} :
                                        neighbor \in Neighbors(var) \ DOMAIN asg} :
                        wordV[Overlaps(var, pair[1])[1] + 1]
                            # pair[2][Overlaps(var, pair[1])[2] + 1]})]

\* order_domain_values() sorting with reverse=True
OrderDomainValuesDescending(doms, var, asg, order) ==
    SortedBy(order, [w \in doms[var] |-> 0 - NumEliminated(doms, var, asg)[w]])

\* order_domain_values(var, assignment); `order` is the order in which the
\* domain of var is iterated when num_eliminated is filled
OrderDomainValues(doms, var, asg, order) ==
    SortedBy(order, NumEliminated(doms, var, asg))

Unassigned(asg) == {v \in cw.variables : v \notin DOMAIN asg}

\* select_unassigned_variable(assignment) on a non-empty set of unassigned
\* variables, iterated in `order`
SelectUnassignedVariable(doms, asg, order) ==
    LET num_remaining_values == SortedBy(order, [v \in Range(order) |-> Cardinality(doms[v])])
    IN IF Len(num_remaining_values) = 1
          \/ Cardinality(doms[num_remaining_values[1]]) # Cardinality(doms[num_remaining_values[2]])
       THEN num_remaining_values[1]
       ELSE LET num_degrees ==
                    SortedBy(order, [v \in Range(order) |-> 0 - Cardinality(Neighbors(v))])
            IN num_degrees[1]

\* ------------------------------------------------------------- assignments on the heap
\* A dict is an object: the heap maps references 1.. to assignments (functions
\* from the assigned variables to words); reference 0 stands for None.
EmptyAssignment == [v \in {} |-> <<>>]

\* new_assignment = assignment, without the copy: both names refer to one dict
CopyAlias(h, ref) == [heap |-> h, ref |-> ref]

\* new_assignment = assignment.copy()
Copy(h, ref) == [heap |-> Append(h, h[ref]), ref |-> Len(h) + 1]

\* assignment[var] = value
Put(asg, var, value) == [k \in DOMAIN asg \cup {var} |-> IF k = var THEN value ELSE asg[k]]

\* reference counting: objects no frame and no return value refers to are freed
Release(h, st, rv) ==
    LET live == {0, rv} \cup {st[k].asg : k \in 1..Len(st)}
    IN SubSeq(h, 1, CHOOSE m \in live : \A o \in live : o <= m)

NoVar == [i |-> 0, j |-> 0, direction |-> "", length |-> 0]
Frame(ref) == [at |-> "enter", asg |-> ref, var |-> NoVar, values |-> <<>>, idx |-> 0]

Top == stack[Len(stack)]
Below == SubSeq(stack, 1, Len(stack) - 1)

\* a return from the backtrack call on top of the stack with value rv
Return(rv) ==
    /\ stack' = Below
    /\ retval' = rv
    /\ heap' = Release(heap, Below, rv)
    /\ pc' = IF Below = <<>> THEN "done" ELSE "search"

\* ------------------------------------------------------------- solve()
NoRevise == [x |-> NoVar, y |-> NoVar, removed |-> {}, ret |-> ""]

CwIdle ==
    /\ cw = Crossword({}, {})
    /\ domains = EmptyAssignment
    /\ pc = "idle"
    /\ queue = <<>>
    /\ ac3Result = "None"
    /\ lastRevise = NoRevise
    /\ heap = <<>>
    /\ stack = <<>>
    /\ retval = 0
    /\ calls = 0

RankIdle ==
    /\ corpus = EmptyAssignment
    /\ n = 0
    /\ page = ""
    /\ iter = 0
    /\ pageranks = EmptyAssignment
    /\ rpc = "idle"

\* CrosswordCreator(crossword), before solve() is called
Init ==
    /\ cw \in {Crossword(S, W) : S \in Structures, W \in WordLists}
    /\ domains = InitDomains
    /\ pc = "start"
    /\ queue = <<>>
    /\ ac3Result = "None"
    /\ lastRevise = NoRevise
    /\ heap = <<>>
    /\ stack = <<>>
    /\ retval = 0
    /\ calls = 0
    /\ RankIdle

\* solve(): self.enforce_node_consistency()
NodeConsistency ==
    /\ pc = "start"
    /\ domains' = EnforceNodeConsistency(domains)
    /\ pc' = "ac3"
    /\ UNCHANGED <<cw, queue, ac3Result, lastRevise, heap, stack, retval, calls, rankVars>>

\* solve(): self.ac3(), up to the while loop
Ac3Begin ==
    /\ pc = "ac3"
    /\ \E order \in Perms(cw.variables) : queue' = InitialArcs(order)
    /\ pc' = "ac3loop"
    /\ UNCHANGED <<cw, domains, ac3Result, lastRevise, heap, stack, retval, calls, rankVars>>

\* ac3(): one iteration of the while loop
Ac3Step ==
    /\ pc = "ac3loop"
    /\ queue # <<>>
    /\ \E order \in Perms(cw.variables) :
        LET it == Ac3Iteration(domains, queue, order)
        IN /\ domains' = it.domains
           /\ queue' = it.queue
           /\ lastRevise' = [x |-> Head(queue)[1], y |-> Head(queue)[2],
                             removed |-> it.revise.removed, ret |-> it.revise.ret]
           /\ ac3Result' = it.result
           /\ pc' = IF it.result = "False" THEN "ac3done" ELSE "ac3loop"
    /\ UNCHANGED <<cw, heap, stack, retval, calls, rankVars>>

\* ac3(): the queue is empty, return True
Ac3Finish ==
    /\ pc = "ac3loop"
    /\ queue = <<>>
    /\ ac3Result' = "True"
    /\ pc' = "ac3done"
    /\ UNCHANGED <<cw, domains, queue, lastRevise, heap, stack, retval, calls, rankVars>>

\* solve(): return self.backtrack(dict()); the value ac3() returned is dropped
SolveBacktrack ==
    /\ pc = "ac3done"
    /\ heap' = <<EmptyAssignment>>
    /\ stack' = <<Frame(1)>>
    /\ calls' = calls + 1
    /\ pc' = "search"
    /\ UNCHANGED <<cw, domains, queue, ac3Result, lastRevise, retval, rankVars>>

\* backtrack(): the assignment is complete, return it
BacktrackComplete ==
    /\ pc = "search"
    /\ Top.at = "enter"
    /\ AssignmentComplete(heap[Top.asg])
    /\ Return(Top.asg)
    /\ UNCHANGED <<cw, domains, queue, ac3Result, lastRevise, calls, rankVars>>

\* backtrack(): select a variable and order its values; with nothing left to
\* select, num_remaining_values[0] raises IndexError
BacktrackSelect ==
    /\ pc = "search"
    /\ Top.at = "enter"
    /\ ~AssignmentComplete(heap[Top.asg])
    /\ LET asg == heap[Top.asg]
       IN IF Unassigned(asg) = {}
          THEN pc' = "crashed" /\ UNCHANGED stack
          ELSE \E vorder \in Perms(Unassigned(asg)) :
                 LET var == SelectUnassignedVariable(domains, asg, vorder)
                 IN \E worder \in Perms(domains[var]) :
                       /\ stack' = Below \o
                            <<[Top EXCEPT !.at = "loop", !.var = var, !.idx = 0,
                                 !.values = OrderDomainValues(domains, var, asg, worder)]>>
                       /\ pc' = "search"
    /\ UNCHANGED <<cw, domains, queue, ac3Result, lastRevise, heap, retval, calls, rankVars>>

\* backtrack(): one iteration of the for loop, up to the recursive call
BacktrackTry ==
    /\ pc = "search"
    /\ Top.at = "loop"
    /\ Top.idx < Len(Top.values)
    /\ LET value == Top.values[Top.idx + 1]
           new == Copy(heap, Top.asg)
           h == [new.heap EXCEPT ![new.ref] = Put(@, Top.var, value)]
       IN IF Consistent(h[new.ref])
          THEN /\ stack' = Below \o <<[Top EXCEPT !.at = "wait"], Frame(new.ref)>>
               /\ heap' = h
               /\ calls' = calls + 1
          ELSE /\ stack' = Below \o <<[Top EXCEPT !.idx = @ + 1]>>
               /\ heap' = Release(h, stack', 0)
               /\ calls' = calls
    /\ UNCHANGED <<cw, domains, pc, queue, ac3Result, lastRevise, retval, rankVars>>

\* backtrack(): the recursive call returned
BacktrackResume ==
    /\ pc = "search"
    /\ Top.at = "wait"
    /\ IF retval # 0
       THEN Return(retval)
       ELSE /\ stack' = Below \o <<[Top EXCEPT !.at = "loop", !.idx = @ + 1]>>
            /\ UNCHANGED <<heap, retval, pc>>
    /\ UNCHANGED <<cw, domains, queue, ac3Result, lastRevise, calls, rankVars>>

\* backtrack(): every value was tried, return None
BacktrackExhausted ==
    /\ pc = "search"
    /\ Top.at = "loop"
    /\ Top.idx = Len(Top.values)
    /\ Return(0)
    /\ UNCHANGED <<cw, domains, queue, ac3Result, lastRevise, calls, rankVars>>

Next ==
    \/ NodeConsistency
    \/ Ac3Begin
    \/ Ac3Step
    \/ Ac3Finish
    \/ SolveBacktrack
    \/ BacktrackComplete
    \/ BacktrackSelect
    \/ BacktrackTry
    \/ BacktrackResume
    \/ BacktrackExhausted

Spec == Init /\ [][Next]_vars

\* ------------------------------------------------------------- pagerank.py
\* DAMPING = 0.85, in hundredths
DampingPct == 85

Pages == {"1.html", "2.html", "3.html"}

\* what crawl() can return: every page maps to a set of other pages of the corpus
Corpora ==
    UNION {{c \in [P -> SUBSET P] : \A p \in P : p \notin c[p]} : P \in SUBSET Pages \ {{}}}

\* transition_model(corpus, page, damping_factor): the probability of each
\* page, as a numerator over the common denominator 100 * len(corpus) *
\* len(corpus[page]) (over len(corpus) when the page has no links)
TransitionModel(c, p, damping) ==
    IF c[p] # {}
    THEN [link \in DOMAIN c |->
            (100 - damping) * Cardinality(c[p])
              + (IF link \in c[p] THEN damping * Cardinality(DOMAIN c) ELSE 0)]
    ELSE [link \in DOMAIN c |-> 1]

\* range(2, n): the values the loop variable of sample_pagerank takes
SampleRange(count) == 2..(count - 1)

RECURSIVE SumOver(_, _)
SumOver(f, S) == IF S = {} THEN 0 ELSE LET e == CHOOSE e \in S : TRUE IN f[e] + SumOver(f, S \ {e})

\* a call sample_pagerank(corpus, DAMPING, n)
InitRank ==
    /\ corpus \in Corpora
    /\ n \in 1..MaxN
    /\ page = ""
    /\ iter = 0
    /\ pageranks = EmptyAssignment
    /\ rpc = "start"
    /\ CwIdle

\* pageranks[page] = 0 for every page; page = random.choice(...)
SampleStart ==
    /\ rpc = "start"
    /\ pageranks' = [p \in DOMAIN corpus |-> 0]
    /\ page' \in DOMAIN corpus
    /\ iter' = 2
    /\ rpc' = "loop"
    /\ UNCHANGED <<corpus, n, cwVars>>

\* one iteration of `for i in range(2, n)`; random.choices draws a page of
\* positive weight
SampleStep ==
    /\ rpc = "loop"
    /\ iter \in SampleRange(n)
    /\ LET prob_distribution == TransitionModel(corpus, page, DampingPct)
       IN /\ pageranks' = [pageranks EXCEPT ![page] = @ + 1]
          /\ page' \in {p \in DOMAIN prob_distribution : prob_distribution[p] > 0}
    /\ iter' = iter + 1
    /\ UNCHANGED <<corpus, n, rpc, cwVars>>

\* the loop is over: pageranks[page] /= n, kept as the fraction <<count, n>>
SampleFinish ==
    /\ rpc = "loop"
    /\ iter \notin SampleRange(n)
    /\ pageranks' = [p \in DOMAIN pageranks |-> <<pageranks[p], n>>]
    /\ rpc' = "done"
    /\ UNCHANGED <<corpus, n, page, iter, cwVars>>

NextRank ==
    \/ SampleStart
    \/ SampleStep
    \/ SampleFinish

SpecRank == InitRank /\ [][NextRank]_vars

\* ------------------------------------------------------------- properties
SomeDomainEmpty == \E v \in cw.variables : domains[v] = {}

\* asg binds every slot to a word of the slot's length, the words pairwise
\* distinct and equal at every overlap
IsSolution(asg) ==
    /\ DOMAIN asg = cw.variables
    /\ \A v \in cw.variables : Len(asg[v]) = v.length
    /\ \A v1, v2 \in cw.variables : v1 # v2 => asg[v1] # asg[v2]
    /\ \A v1, v2 \in cw.variables :
          (v1 # v2 /\ Overlaps(v1, v2) # <<>>) =>
              asg[v1][Overlaps(v1, v2)[1] + 1] = asg[v2][Overlaps(v1, v2)[2] + 1]

SolutionExists == \E asg \in [cw.variables -> cw.words] : IsSolution(asg)

\* every word of Domain(x) has a word of Domain(y) with the same letter at the overlap
ArcConsistent(x, y) ==
    \A wx \in domains[x] : \E wy \in domains[y] :
        wx[Overlaps(x, y)[1] + 1] = wy[Overlaps(x, y)[2] + 1]

AllArcsConsistent ==
    \A x, y \in cw.variables : (x # y /\ Overlaps(x, y) # <<>>) => ArcConsistent(x, y)

\* the frames of the stack in which a variable has been selected
Selected == {k \in 1..Len(stack) : stack[k].at # "enter"}

\* the pairs (unassigned neighbor of var, word of its domain) that disagree with word w
Conflicts(var, asg, w) ==
    Cardinality({pr \in (Neighbors(var) \ DOMAIN asg) \X cw.words :
                    /\ pr[2] \in domains[pr[1]]
                    /\ w[Overlaps(var, pr[1])[1] + 1] # pr[2][Overlaps(var, pr[1])[2] + 1]})

\* C1: whenever solve() returns an assignment, it binds every slot, every word
\* has its slot's length, the words are pairwise distinct and overlapping
\* slots agree at the overlap.
C1_ReturnedAssignmentIsSolution ==
    (pc = "done" /\ retval # 0) => IsSolution(heap[retval])

C1_Witness ==
    /\ pc = "done"
    /\ retval # 0
    /\ Cardinality(cw.variables) = 3
    /\ calls > 4

\* C2: solve() never crashes, and when some complete assignment of word-list
\* words satisfies the length, distinctness and overlap constraints it returns
\* an assignment, not None.
C2_NoneOnlyWhenNoSolution ==
    /\ pc # "crashed"
    /\ (pc = "done" /\ SolutionExists) => retval # 0

C2_Witness ==
    /\ pc = "done"
    /\ SolutionExists
    /\ retval # 0
    /\ \E v \in cw.variables : domains[v] # {w \in cw.words : Len(w) = v.length}
    /\ calls > Cardinality(cw.variables) + 1

\* C3 (as claimed): with an empty domain after node and arc consistency,
\* solve() returns None and backtrack() is never called.
C3_NoSearchOnEmptyDomain ==
    (pc \in {"search", "done"} /\ SomeDomainEmpty) => calls = 0

\* C3 (amended): with an empty domain after node and arc consistency, solve()
\* returns None, and it does so through search: backtrack() has been called.
C3_EmptyDomainReturnsNone ==
    /\ (pc \in {"search", "done"} /\ SomeDomainEmpty) => calls >= 1
    /\ (pc = "done" /\ SomeDomainEmpty) => retval = 0

C3_Witness ==
    /\ pc = "done"
    /\ \E v \in cw.variables :
          domains[v] = {} /\ \E w \in cw.words : Len(w) = v.length
    /\ retval = 0

\* the domains ac3() starts from
NodeConsistentDomains == EnforceNodeConsistency(InitDomains)

\* C4: (every slot starting with a word of its length) when ac3() returns True
\* every domain is non-empty and every ordered pair of overlapping slots is
\* arc-consistent; when a domain ends up empty ac3() returns False.
C4_Ac3TrueMeansArcConsistent ==
    (pc = "ac3done" /\ \A v \in cw.variables : NodeConsistentDomains[v] # {}) =>
        /\ ac3Result = "True" => (~SomeDomainEmpty /\ AllArcsConsistent)
        /\ SomeDomainEmpty => ac3Result = "False"

\* C5: revise(x, y) returns a true value exactly when it removed a word from
\* Domain(x).
C5_ReviseReportsRemoval ==
    lastRevise # NoRevise => (Truthy(lastRevise.ret) <=> lastRevise.removed # {})

\* C6: the slot select_unassigned_variable returns is unassigned, has the
\* smallest domain of the unassigned slots, and has the most neighbors among
\* the unassigned slots of that domain size.
C6_SelectMinDomainThenMaxDegree ==
    \A k \in Selected :
        LET un == Unassigned(heap[stack[k].asg])
            var == stack[k].var
            tied == {v \in un : Cardinality(domains[v]) = Cardinality(domains[var])}
        IN /\ var \in un
           /\ \A v \in un : Cardinality(domains[var]) <= Cardinality(domains[v])
           /\ \A v \in tied : Cardinality(Neighbors(v)) <= Cardinality(Neighbors(var))

C7_Ordered ==
    \A k \in Selected :
        LET f == stack[k]
            asg == heap[f.asg]
        IN /\ Len(f.values) = Cardinality(domains[f.var])
           /\ Range(f.values) = domains[f.var]
           /\ \A a, b \in 1..Len(f.values) :
                 a < b => Conflicts(f.var, asg, f.values[a]) <= Conflicts(f.var, asg, f.values[b])

\* the step in which backtrack() calls order_domain_values
OrdersValues ==
    /\ stack # <<>>
    /\ Top.at = "enter"
    /\ Len(stack') = Len(stack)
    /\ stack'[Len(stack)].at = "loop"

\* C7: order_domain_values returns every word of Domain(var) exactly once, in
\* non-decreasing order of the number of (unassigned neighbor, neighbor word)
\* pairs the word disagrees with, and the call changes no domain.
C7_ValuesOrderedByConflicts ==
    [](C7_Ordered) /\ [][OrdersValues => domains' = domains]_vars

C7_Witness ==
    /\ \E k \in Selected :
          LET f == stack[k]
          IN /\ Len(f.values) >= 2
             /\ Conflicts(f.var, heap[f.asg], f.values[1])
                  < Conflicts(f.var, heap[f.asg], f.values[Len(f.values)])
    /\ \E k \in Selected :
          /\ Len(stack[k].values) >= 2
          /\ Neighbors(stack[k].var) \cap DOMAIN heap[stack[k].asg] # {}

\* C8: the values sample_pagerank returns sum to 1: the visit counts total n.
C8_SampleSumsToOne ==
    rpc = "done" =>
        SumOver([p \in DOMAIN pageranks |-> pageranks[p][1]], DOMAIN pageranks) = n

\* the domains ac3() leaves when the variables iterate in one fixed order
ReferenceOrder == CHOOSE order \in Perms(cw.variables) : TRUE
ReferenceDomains ==
    RunAc3(NodeConsistentDomains, InitialArcs(ReferenceOrder), ReferenceOrder).domains

\* C9: the domains ac3() leaves are the same for every order in which the
\* initial arcs are enumerated and popped.
C9_Ac3OrderIndependent ==
    pc = "ac3done" => domains = ReferenceDomains

\* C10: no step of the search changes the assignment of a call still on the
\* stack (or of the call returning), and no step of the search changes a domain.
C10_SearchLeavesInputsUnchanged ==
    [][/\ \A k \in 1..Len(stack) :
            stack[k].asg \in 1..Len(heap') => heap'[stack[k].asg] = heap[stack[k].asg]
       /\ pc = "search" => domains' = domains]_vars

C10_Witness ==
    /\ pc = "search"
    /\ Len(stack) >= 2
    /\ Top.at = "wait"
    /\ retval = 0

====
